---- MODULE Spec2Model ----
(***************************************************************************)
(* kube-ingress-index (src/main.go): one informer per watched namespace     *)
(* normalises Ingress notifications into records, applies them to a        *)
(* mutex-guarded accumulator and sends a copy of the accumulator down a    *)
(* buffered channel; one goroutine receives the copies, stores the latest  *)
(* in curIngresses and sorts it in place; the HTTP handler renders         *)
(* curIngresses.                                                           *)
(*                                                                         *)
(* Strings are sequences of byte values (ASCII codes), so that prefix      *)
(* tests, URL splitting, lower-casing and byte-wise comparison are         *)
(* computed as the Go code computes them.                                  *)
(***************************************************************************)
EXTENDS Integers, Sequences, FiniteSets, TLC

-----------------------------------------------------------------------------
(* String literals *)

\* "default"
s_default == <<100, 101, 102, 97, 117, 108, 116>>
\* "prod"
s_prod == <<112, 114, 111, 100>>
\* "web"
s_web == <<119, 101, 98>>
\* "api"
s_api == <<97, 112, 105>>
\* "db"
s_db == <<100, 98>>
\* "docs"
s_docs == <<100, 111, 99, 115>>
\* "app.example.com"
h_app == <<97, 112, 112, 46, 101, 120, 97, 109, 112, 108, 101, 46, 99, 111, 109>>
\* "localhost:8080"
h_lo == <<108, 111, 99, 97, 108, 104, 111, 115, 116, 58, 56, 48, 56, 48>>
\* "b.io"
h_b == <<98, 46, 105, 111>>
\* ""
h_empty == <<>>
\* "localhost"
h_localhost == <<108, 111, 99, 97, 108, 104, 111, 115, 116>>
\* "/x"
h_path == <<47, 120>>
\* "b.io:x"
h_badport == <<98, 46, 105, 111, 58, 120>>
\* "a b"
h_space == <<97, 32, 98>>
\* "u@localhost:80"
h_user == <<117, 64, 108, 111, 99, 97, 108, 104, 111, 115, 116, 58, 56, 48>>
\* "b.io/a b"
h_esc == <<98, 46, 105, 111, 47, 97, 32, 98>>

\* "https://"
p_https == <<104, 116, 116, 112, 115, 58, 47, 47>>
\* "http://"
p_http == <<104, 116, 116, 112, 58, 47, 47>>
\* "localhost:"
p_localhost == <<108, 111, 99, 97, 108, 104, 111, 115, 116, 58>>
\* "Ingress: namespace="
f_namespace == <<73, 110, 103, 114, 101, 115, 115, 58, 32, 110, 97, 109, 101, 115, 112, 97, 99, 101, 61>>
\* ", name="
f_name == <<44, 32, 110, 97, 109, 101, 61>>
\* ", fqdn="
f_fqdn == <<44, 32, 102, 113, 100, 110, 61>>

\* byte values of the characters the URL code looks for
chSlash == <<47>>
chColon == <<58>>
chAt == <<64>>

-----------------------------------------------------------------------------
(* strings package *)

\* strings.HasPrefix
HasPrefix(s, p) == Len(s) >= Len(p) /\ SubSeq(s, 1, Len(p)) = p

\* strings.Index for a one-byte needle; 0 when absent (Go: -1)
Index(s, c) ==
    IF \E i \in 1..Len(s) : s[i] = c[1]
    THEN CHOOSE i \in 1..Len(s) : s[i] = c[1] /\ \A j \in 1..(i - 1) : s[j] # c[1]
    ELSE 0

\* strings.LastIndex for a one-byte needle; 0 when absent
LastIndex(s, c) ==
    IF \E i \in 1..Len(s) : s[i] = c[1]
    THEN CHOOSE i \in 1..Len(s) : s[i] = c[1] /\ \A j \in (i + 1)..Len(s) : s[j] # c[1]
    ELSE 0

\* strings.ToLower on ASCII
ToLower(s) == [i \in 1..Len(s) |-> IF s[i] >= 65 /\ s[i] <= 90 THEN s[i] + 32 ELSE s[i]]

\* Go's < on strings: byte-wise lexicographic order
StrLess(a, b) ==
    \E i \in 1..(Len(b)) :
        /\ i <= Len(a) + 1
        /\ SubSeq(a, 1, i - 1) = SubSeq(b, 1, i - 1)
        /\ (i = Len(a) + 1 \/ a[i] < b[i])

-----------------------------------------------------------------------------
(* net/url as used by buildFQDN, for hosts over letters, digits and        *)
(* . - : / @ and space (no ? # % [ in the modelled inputs)                  *)

isDigit(c) == c >= 48 /\ c <= 57
isAlpha(c) == (c >= 65 /\ c <= 90) \/ (c >= 97 /\ c <= 122)

\* url.validOptionalPort: "" or ":" followed by digits only
validOptionalPort(port) ==
    port = <<>> \/ (port[1] = 58 /\ \A i \in 2..Len(port) : isDigit(port[i]))

\* url.shouldEscape(c, encodeHost) on the modelled alphabet
hostByteOK(c) == isDigit(c) \/ isAlpha(c) \/ c \in {45, 46, 58, 95, 126}

\* url.parseHost: [ok, host]
parseHost(host) ==
    LET i == LastIndex(host, chColon)
    IN IF i # 0 /\ ~validOptionalPort(SubSeq(host, i, Len(host)))
       THEN [ok |-> FALSE, host |-> <<>>]
       ELSE IF \E k \in 1..Len(host) : ~hostByteOK(host[k])
       THEN [ok |-> FALSE, host |-> <<>>]
       ELSE [ok |-> TRUE, host |-> host]

\* url.validUserinfo on the modelled alphabet
validUserinfo(u) ==
    \A k \in 1..Len(u) : isDigit(u[k]) \/ isAlpha(u[k]) \/ u[k] \in {45, 46, 58, 64, 95, 126}

\* url.Parse(scheme + host): the text after "scheme://" is the authority up
\* to the first "/", the rest is the path; the authority's host is what
\* follows its last "@".  [ok, Scheme, User, HasUser, Host, Path]
urlParse(scheme, rest) ==
    LET i == Index(rest, chSlash)
        authority == IF i = 0 THEN rest ELSE SubSeq(rest, 1, i - 1)
        path == IF i = 0 THEN <<>> ELSE SubSeq(rest, i, Len(rest))
        a == LastIndex(authority, chAt)
        h == parseHost(SubSeq(authority, a + 1, Len(authority)))
        user == SubSeq(authority, 1, a - 1)
        bad == [ok |-> FALSE, Scheme |-> <<>>, User |-> <<>>, HasUser |-> FALSE,
                Host |-> <<>>, Path |-> <<>>]
    IN IF ~h.ok THEN bad
       ELSE IF a # 0 /\ ~validUserinfo(user) THEN bad
       ELSE [ok |-> TRUE, Scheme |-> scheme, User |-> user, HasUser |-> (a # 0),
             Host |-> h.host, Path |-> path]

\* url.escape(path, encodePath) on the modelled alphabet: a space becomes %20
RECURSIVE escapePath(_)
escapePath(p) ==
    IF p = <<>> THEN <<>>
    ELSE (IF Head(p) = 32 THEN <<37, 50, 48>> ELSE <<Head(p)>>) \o escapePath(Tail(p))

\* (*url.URL).String on the modelled alphabet
urlString(u) ==
    u.Scheme \o (IF u.HasUser /\ u.User # <<>> THEN u.User \o chAt ELSE <<>>)
             \o u.Host \o escapePath(u.Path)

-----------------------------------------------------------------------------
(* Record normaliser *)

\* buildFQDN, lines 209-215: the set of hosts named by any TLS entry
RECURSIVE tlsHostsOf(_)
tlsHostsOf(tls) ==
    IF tls = <<>> THEN {}
    ELSE {Head(tls)[j] : j \in 1..Len(Head(tls))} \cup tlsHostsOf(Tail(tls))

\* buildFQDN, lines 217-232: the rules loop from rule i on
RECURSIVE buildFQDNFrom(_, _, _, _)
buildFQDNFrom(rules, tlsHosts, force, i) ==
    IF i > Len(rules) THEN <<>>
    ELSE LET host == rules[i]
             u == IF force \/ host \in tlsHosts
                  THEN urlParse(p_https, host)
                  ELSE urlParse(p_http, host)
         IN IF ~u.ok \/ u.Host = <<>> \/ HasPrefix(u.Host, p_localhost)
            THEN buildFQDNFrom(rules, tlsHosts, force, i + 1)
            ELSE urlString(u)

\* buildFQDN that takes every host for a TLS host
buildFQDNAlwaysTLS(ing, force) == buildFQDNFrom(ing.Rules, tlsHostsOf(ing.TLS), TRUE, 1)

\* buildFQDN(ing) under the -force-tls flag; "" when no rule is usable
buildFQDN(ing, force) == buildFQDNFrom(ing.Rules, tlsHostsOf(ing.TLS), force, 1)

\* buildIngress without the test of fqdn == ""
buildIngressUnchecked(ing, force) ==
    [err |-> FALSE,
     ing |-> [Namespace |-> ing.Namespace, Name |-> ing.Name,
              FQDN |-> buildFQDN(ing, force)]]

\* buildIngress: [err, ing]
buildIngress(ing, force) ==
    LET fqdn == buildFQDN(ing, force)
    IN IF fqdn = <<>>
       THEN [err |-> TRUE, ing |-> [Namespace |-> <<>>, Name |-> <<>>, FQDN |-> <<>>]]
       ELSE [err |-> FALSE,
             ing |-> [Namespace |-> ing.Namespace, Name |-> ing.Name, FQDN |-> fqdn]]

\* ingress.String
String(ing) == f_namespace \o ing.Namespace \o f_name \o ing.Name \o f_fqdn \o ing.FQDN

\* the less function of sortIngresses
less(a, b) == StrLess(ToLower(String(a)), ToLower(String(b)))

-----------------------------------------------------------------------------
(* Accumulator *)

\* upsert, lines 269-275: is some stored record named like ing
RECURSIVE found(_, _, _)
found(act, ing, k) ==
    IF k > Len(act) THEN FALSE
    ELSE IF act[k].Name = ing.Name THEN TRUE
    ELSE found(act, ing, k + 1)

\* upsert replacing the stored record of the same name (last write wins)
upsertReplace(act, ing) ==
    IF found(act, ing, 1)
    THEN [k \in 1..Len(act) |-> IF act[k].Name = ing.Name THEN ing ELSE act[k]]
    ELSE Append(act, ing)

\* upsert without the test of found
upsertAlways(act, ing) == Append(act, ing)

\* upsert, lines 269-278: the new value of i.active
upsert(act, ing) == IF ~found(act, ing, 1) THEN Append(act, ing) ELSE act

\* delete, lines 290-296: next, built from record k on
RECURSIVE deleteFrom(_, _, _)
deleteFrom(act, ing, k) ==
    IF k > Len(act) THEN <<>>
    ELSE IF act[k].Name = ing.Name THEN deleteFrom(act, ing, k + 1)
    ELSE <<act[k]>> \o deleteFrom(act, ing, k + 1)

\* delete matching on namespace and name
RECURSIVE deleteSameNamespace(_, _)
deleteSameNamespace(act, ing) ==
    IF act = <<>> THEN <<>>
    ELSE IF Head(act).Name = ing.Name /\ Head(act).Namespace = ing.Namespace
    THEN deleteSameNamespace(Tail(act), ing)
    ELSE <<Head(act)>> \o deleteSameNamespace(Tail(act), ing)

\* delete, lines 290-297: the new value of i.active
delete(act, ing) == deleteFrom(act, ing, 1)

\* lines 281-282 and 300-301: out := make(...); copy(out, i.active)
copy(act) == [k \in 1..Len(act) |-> act[k]]

-----------------------------------------------------------------------------
(* Bounds and inputs *)

\* notifications delivered in one behaviour, over all subscriptions
MaxEvents == 2
\* the same, in the behaviours that also serve HTTP requests
MaxEventsHTTP == 2
\* HTTP requests served in one behaviour
MaxRequests == 1
\* records in the accumulator when the concurrent writers start
MaxLen == 3
\* capacity of respChan
ChanCap == 10

\* -namespaces
watchableNamespaces == {s_default, s_prod}

\* the Ingress objects the informer of namespace ns may hand to the handlers:
\* two names, each in three states (no usable rule; a loopback rule followed
\* by a TLS host; one plain host)
Names == {s_web, s_api}
IngressSpecs ==
    { [TLS |-> <<>>, Rules |-> <<h_lo>>],
      [TLS |-> << <<h_app>> >>, Rules |-> <<h_lo, h_app>>],
      [TLS |-> <<>>, Rules |-> <<h_b>>] }
Objects(ns) ==
    { [Namespace |-> ns, Name |-> n, TLS |-> sp.TLS, Rules |-> sp.Rules] :
          n \in Names, sp \in IngressSpecs }

NoIngress == [Namespace |-> <<>>, Name |-> <<>>, FQDN |-> <<>>]
NoNote == [kind |-> "none",
           obj |-> [Namespace |-> <<>>, Name |-> <<>>, TLS |-> <<>>, Rules |-> <<>>]]
Unlocked == <<>>
NoPage == [items |-> <<>>, empty |-> FALSE]

-----------------------------------------------------------------------------
(* State *)

VARIABLES
    forceTLS,      \* *flagForceTLS
    active,        \* accum.active
    mu,            \* accum.mu: Unlocked or the namespace whose handler holds it
    respChan,      \* the buffered channel of snapshots
    pc,            \* per subscription: where its handler is
    ing,           \* per subscription: the handler's *ing
    current,       \* per subscription: the handler's current
    curIngresses,  \* listenHTTP's curIngresses
    pubPc,         \* the goroutine of lines 157-170: "select", "sort", "done"
    signalChan,    \* signals waiting in signalChan (capacity 1)
    sigPc,         \* handleSignals: "range" or "done"
    doneChan,      \* errors waiting in doneChan (capacity 1)
    srv,           \* the http.Server: "serving" or "closed"
    exited,        \* main has returned
    reqPc,         \* the handler of one request: "idle" or "range"
    reqLen,        \* length of the slice the request passed to the template
    reqShared,     \* that slice still shares its array with curIngresses
    reqOld,        \* the array's contents once curIngresses was replaced
    reqOut,        \* rows written so far
    rendered,      \* the last page written in full
    served,        \* requests served
    delivered,     \* notifications delivered
    accepted,      \* notifications for which buildIngress returned a record
    ops,           \* accumulator operations completed
    sent,          \* snapshots sent
    note,          \* per subscription: the notification being handled, as kind
                   \* and object (for an update, the object's new state)
    names          \* the names upserted and not deleted since, in lock order

subVars == <<pc, ing, current, note>>
accVars == <<active, mu, names>>
pubVars == <<curIngresses, pubPc>>
sigVars == <<signalChan, sigPc, doneChan>>
reqVars == <<reqPc, reqLen, reqShared, reqOld, reqOut, rendered, served>>
cntVars == <<delivered, accepted, ops, sent>>
vars == <<forceTLS, respChan, srv, exited, subVars, accVars, pubVars, sigVars,
          reqVars, cntVars>>

\* the records buildIngress makes of a set of objects
recordsOf(objs, force) ==
    {buildIngress(o, force).ing : o \in {x \in objs : ~buildIngress(x, force).err}}

\* the names of a list of records
nameSet(list) == {list[k].Name : k \in 1..Len(list)}

Init ==
    /\ forceTLS \in BOOLEAN
    /\ active = <<>>
    /\ mu = Unlocked
    /\ respChan = <<>>
    /\ pc = [s \in watchableNamespaces |-> "idle"]
    /\ ing = [s \in watchableNamespaces |-> NoIngress]
    /\ current = [s \in watchableNamespaces |-> <<>>]
    /\ curIngresses = <<>>
    /\ pubPc = "select"
    /\ signalChan = 0
    /\ sigPc = "range"
    /\ doneChan = 0
    /\ srv = "serving"
    /\ exited = FALSE
    /\ reqPc = "idle"
    /\ reqLen = 0
    /\ reqShared = FALSE
    /\ reqOld = <<>>
    /\ reqOut = <<>>
    /\ rendered = NoPage
    /\ served = 0
    /\ delivered = 0
    /\ accepted = 0
    /\ ops = 0
    /\ sent = 0
    /\ note = [s \in watchableNamespaces |-> NoNote]
    /\ names = {}

-----------------------------------------------------------------------------
(* Watch dispatcher: the three handlers of ingEventHandler *)

\* a handler that takes the next notification while the send of the last
\* one is still waiting (each notification handled in a goroutine of its own)
handlerStartAsync(s, k, ok, obj, call, maxEvents) ==
    /\ ~exited
    /\ pc[s] \in {"idle", "send"}
    /\ delivered < maxEvents
    /\ delivered' = delivered + 1
    /\ LET b == buildIngress(obj, forceTLS)
       IN IF ~ok \/ b.err
          THEN UNCHANGED <<pc, ing, note, accepted>>
          ELSE /\ pc' = [pc EXCEPT ![s] = call]
               /\ ing' = [ing EXCEPT ![s] = b.ing]
               /\ note' = [note EXCEPT ![s] = [kind |-> k, obj |-> obj]]
               /\ accepted' = accepted + 1
    /\ UNCHANGED <<forceTLS, respChan, srv, exited, current, accVars, pubVars,
                   sigVars, reqVars, ops, sent>>

\* a handler that goes on to the accumulator without the err == nil test
handlerStartIgnoresErr(s, k, ok, obj, call, maxEvents) ==
    /\ ~exited
    /\ pc[s] = "idle"
    /\ delivered < maxEvents
    /\ delivered' = delivered + 1
    /\ LET b == buildIngress(obj, forceTLS)
       IN IF ~ok
          THEN UNCHANGED <<pc, ing, note, accepted>>
          ELSE /\ pc' = [pc EXCEPT ![s] = call]
               /\ ing' = [ing EXCEPT ![s] = b.ing]
               /\ note' = [note EXCEPT ![s] = [kind |-> k, obj |-> obj]]
               /\ accepted' = IF b.err THEN accepted ELSE accepted + 1
    /\ UNCHANGED <<forceTLS, respChan, srv, exited, current, accVars, pubVars,
                   sigVars, reqVars, ops, sent>>

\* a handler up to its call of accum.upsert / accum.delete: the type
\* assertion obj.(*k8sNetworking.Ingress), buildIngress and the err == nil
\* test; when the assertion fails or on an error the handler returns
handlerStart(s, k, ok, obj, call, maxEvents) ==
    /\ ~exited
    /\ pc[s] = "idle"
    /\ delivered < maxEvents
    /\ delivered' = delivered + 1
    /\ LET b == buildIngress(obj, forceTLS)
       IN IF ~ok \/ b.err
          THEN UNCHANGED <<pc, ing, note, accepted>>
          ELSE /\ pc' = [pc EXCEPT ![s] = call]
               /\ ing' = [ing EXCEPT ![s] = b.ing]
               /\ note' = [note EXCEPT ![s] = [kind |-> k, obj |-> obj]]
               /\ accepted' = accepted + 1
    /\ UNCHANGED <<forceTLS, respChan, srv, exited, current, accVars, pubVars,
                   sigVars, reqVars, ops, sent>>

AddFunc(s, maxEvents) ==
    \E obj \in Objects(s) : handlerStart(s, "add", TRUE, obj, "upsert", maxEvents)

\* the informer hands DeleteFunc the deleted *Ingress, or, when it missed the
\* delete event itself, the last known state wrapped in a
\* cache.DeletedFinalStateUnknown, for which the type assertion fails
DeleteFunc(s, maxEvents) ==
    \E obj \in Objects(s) : \E ok \in BOOLEAN :
        handlerStart(s, "delete", ok, obj, "delete", maxEvents)

\* the old state of the object is the first argument and is not used
UpdateFunc(s, maxEvents) ==
    \E cur \in Objects(s) : \E old \in {o \in Objects(s) : o.Name = cur.Name} :
        handlerStart(s, "update", TRUE, cur, "upsert", maxEvents)

\* the same handler from its call of buildIngress on, for a notification it
\* has been handed
build(s) ==
    /\ ~exited
    /\ pc[s] = "build"
    /\ LET b == buildIngress(note[s].obj, forceTLS)
       IN IF b.err
          THEN /\ pc' = [pc EXCEPT ![s] = "idle"]
               /\ note' = [note EXCEPT ![s] = NoNote]
               /\ UNCHANGED <<ing, accepted>>
          ELSE /\ pc' = [pc EXCEPT ![s] = IF note[s].kind = "delete"
                                           THEN "delete" ELSE "upsert"]
               /\ ing' = [ing EXCEPT ![s] = b.ing]
               /\ accepted' = accepted + 1
               /\ UNCHANGED note
    /\ UNCHANGED <<forceTLS, respChan, srv, exited, current, accVars, pubVars,
                   sigVars, reqVars, delivered, ops, sent>>

\* i.mu.Lock() of upsert and of delete
Lock(s) ==
    /\ ~exited
    /\ pc[s] \in {"upsert", "delete"}
    /\ mu = Unlocked
    /\ mu' = s
    /\ pc' = [pc EXCEPT ![s] = IF pc[s] = "upsert" THEN "inUpsert" ELSE "inDelete"]
    /\ UNCHANGED <<forceTLS, respChan, srv, exited, ing, current, note, active,
                   names, pubVars, sigVars, reqVars, cntVars>>

\* the body of upsert under the lock, its return value and the deferred Unlock
Upsert(s) ==
    /\ ~exited
    /\ pc[s] = "inUpsert"
    /\ mu = s
    /\ active' = upsert(active, ing[s])
    /\ current' = [current EXCEPT ![s] = copy(active')]
    /\ mu' = Unlocked
    /\ pc' = [pc EXCEPT ![s] = "send"]
    /\ names' = names \cup {ing[s].Name}
    /\ ops' = ops + 1
    /\ UNCHANGED <<forceTLS, respChan, srv, exited, ing, note, pubVars, sigVars,
                   reqVars, delivered, accepted, sent>>

\* the body of delete under the lock, its return value and the deferred Unlock
Delete(s) ==
    /\ ~exited
    /\ pc[s] = "inDelete"
    /\ mu = s
    /\ active' = delete(active, ing[s])
    /\ current' = [current EXCEPT ![s] = copy(active')]
    /\ mu' = Unlocked
    /\ pc' = [pc EXCEPT ![s] = "send"]
    /\ names' = names \ {ing[s].Name}
    /\ ops' = ops + 1
    /\ UNCHANGED <<forceTLS, respChan, srv, exited, ing, note, pubVars, sigVars,
                   reqVars, delivered, accepted, sent>>

\* a send that skips a snapshot equal to the last one queued
SendDedup(s) ==
    /\ ~exited
    /\ pc[s] = "send"
    /\ Len(respChan) < ChanCap
    /\ IF respChan # <<>> /\ respChan[Len(respChan)] = current[s]
       THEN UNCHANGED <<respChan, sent>>
       ELSE respChan' = Append(respChan, current[s]) /\ sent' = sent + 1
    /\ pc' = [pc EXCEPT ![s] = "idle"]
    /\ ing' = [ing EXCEPT ![s] = NoIngress]
    /\ current' = [current EXCEPT ![s] = <<>>]
    /\ note' = [note EXCEPT ![s] = NoNote]
    /\ UNCHANGED <<forceTLS, srv, exited, accVars, pubVars, sigVars, reqVars,
                   delivered, accepted, ops>>

\* a send that gives up when the channel is full (select with a default case)
SendOrDrop(s) ==
    /\ ~exited
    /\ pc[s] = "send"
    /\ IF Len(respChan) < ChanCap
       THEN respChan' = Append(respChan, current[s]) /\ sent' = sent + 1
       ELSE UNCHANGED <<respChan, sent>>
    /\ pc' = [pc EXCEPT ![s] = "idle"]
    /\ ing' = [ing EXCEPT ![s] = NoIngress]
    /\ current' = [current EXCEPT ![s] = <<>>]
    /\ note' = [note EXCEPT ![s] = NoNote]
    /\ UNCHANGED <<forceTLS, srv, exited, accVars, pubVars, sigVars, reqVars,
                   delivered, accepted, ops>>

\* respChan <- current: blocks while the channel is full; then the handler
\* prints and returns, and its locals are gone
Send(s) ==
    /\ ~exited
    /\ pc[s] = "send"
    /\ Len(respChan) < ChanCap
    /\ respChan' = Append(respChan, current[s])
    /\ pc' = [pc EXCEPT ![s] = "idle"]
    /\ ing' = [ing EXCEPT ![s] = NoIngress]
    /\ current' = [current EXCEPT ![s] = <<>>]
    /\ note' = [note EXCEPT ![s] = NoNote]
    /\ sent' = sent + 1
    /\ UNCHANGED <<forceTLS, srv, exited, accVars, pubVars, sigVars, reqVars,
                   delivered, accepted, ops>>

-----------------------------------------------------------------------------
(* Snapshot publisher: the goroutine of listenHTTP *)

\* positions j where element j sorts before element j-1
inversions(a) == {j \in 2..Len(a) : less(a[j], a[j - 1])}

\* sort.Slice on a short slice is an insertion sort by swaps of neighbours:
\* its next swap is at the leftmost position that is out of order
swapNext(a) ==
    LET j == CHOOSE j \in inversions(a) : \A i \in inversions(a) : j <= i
    IN [a EXCEPT ![j - 1] = a[j], ![j] = a[j - 1]]

\* sortIngresses run to its end
RECURSIVE sortIngresses(_)
sortIngresses(a) == IF inversions(a) = {} THEN a ELSE sortIngresses(swapNext(a))

\* case cur := <-respChan: curIngresses = cur.  A request that is ranging
\* over the previous array keeps that array, which nobody writes any more.
receive ==
    /\ ~exited
    /\ pubPc = "select"
    /\ respChan # <<>>
    /\ curIngresses' = Head(respChan)
    /\ respChan' = Tail(respChan)
    /\ pubPc' = "sort"
    /\ IF reqPc = "range" /\ reqShared
       THEN reqShared' = FALSE /\ reqOld' = curIngresses
       ELSE UNCHANGED <<reqShared, reqOld>>
    /\ UNCHANGED <<forceTLS, srv, exited, subVars, accVars, sigVars, reqPc, reqLen,
                   reqOut, rendered, served, cntVars>>

\* sortIngresses(curIngresses): one swap, in place, in the array readers see
sortSwap ==
    /\ ~exited
    /\ pubPc = "sort"
    /\ inversions(curIngresses) # {}
    /\ curIngresses' = swapNext(curIngresses)
    /\ UNCHANGED <<forceTLS, respChan, srv, exited, subVars, accVars, pubPc, sigVars,
                   reqVars, cntVars>>

\* a publisher without the for loop: it returns after the first snapshot
sortReturnOnce ==
    /\ ~exited
    /\ pubPc = "sort"
    /\ inversions(curIngresses) = {}
    /\ pubPc' = "done"
    /\ UNCHANGED <<forceTLS, respChan, srv, exited, subVars, accVars, curIngresses,
                   sigVars, reqVars, cntVars>>

\* sortIngresses returns; back to the select
sortReturn ==
    /\ ~exited
    /\ pubPc = "sort"
    /\ inversions(curIngresses) = {}
    /\ pubPc' = "select"
    /\ UNCHANGED <<forceTLS, respChan, srv, exited, subVars, accVars, curIngresses,
                   sigVars, reqVars, cntVars>>

\* the doneChan case without its return: the loop goes on after Shutdown
shutdownNoReturn ==
    /\ ~exited
    /\ pubPc = "select"
    /\ doneChan > 0
    /\ doneChan' = doneChan - 1
    /\ srv' = "closed"
    /\ UNCHANGED <<forceTLS, respChan, exited, subVars, accVars, curIngresses, pubPc,
                   signalChan, sigPc, reqVars, cntVars>>

\* case err := <-doneChan: srv.Shutdown(nil); return
shutdown ==
    /\ ~exited
    /\ pubPc = "select"
    /\ doneChan > 0
    /\ doneChan' = doneChan - 1
    /\ srv' = "closed"
    /\ pubPc' = "done"
    /\ UNCHANGED <<forceTLS, respChan, exited, subVars, accVars, curIngresses,
                   signalChan, sigPc, reqVars, cntVars>>

-----------------------------------------------------------------------------
(* Signals and process exit *)

\* signal.Notify: the runtime puts a signal in signalChan, or drops it when
\* the channel is full
notify ==
    /\ ~exited
    /\ signalChan = 0
    /\ signalChan' = 1
    /\ UNCHANGED <<forceTLS, respChan, srv, exited, subVars, accVars, pubVars, sigPc,
                   doneChan, reqVars, cntVars>>

\* handleSignals: the first signal is passed on to doneChan, then return
handleSignals ==
    /\ ~exited
    /\ sigPc = "range"
    /\ signalChan > 0
    /\ doneChan = 0
    /\ signalChan' = signalChan - 1
    /\ doneChan' = 1
    /\ sigPc' = "done"
    /\ UNCHANGED <<forceTLS, respChan, srv, exited, subVars, accVars, pubVars,
                   reqVars, cntVars>>

\* srv.ListenAndServe returns once the server is closed, listenHTTP returns,
\* main returns and the process ends with every goroutine
mainReturn ==
    /\ ~exited
    /\ srv = "closed"
    /\ exited' = TRUE
    /\ UNCHANGED <<forceTLS, respChan, srv, subVars, accVars, pubVars, sigVars,
                   reqVars, cntVars>>

-----------------------------------------------------------------------------
(* HTTP handler *)

\* one <li> of pageContent
row(i) == [Namespace |-> i.Namespace, Href |-> i.FQDN, Name |-> i.Name]

\* a request that waits for the accumulator's lock before it reads
handlerLocked(maxRequests) ==
    /\ ~exited
    /\ srv = "serving"
    /\ mu = Unlocked
    /\ reqPc = "idle"
    /\ served < maxRequests
    /\ reqPc' = "range"
    /\ reqLen' = Len(curIngresses)
    /\ reqShared' = TRUE
    /\ reqOld' = <<>>
    /\ reqOut' = <<>>
    /\ UNCHANGED <<forceTLS, respChan, srv, exited, subVars, accVars, pubVars, sigVars,
                   rendered, served, cntVars>>

\* the request reads curIngresses into the template's data
handler(maxRequests) ==
    /\ ~exited
    /\ srv = "serving"
    /\ reqPc = "idle"
    /\ served < maxRequests
    /\ reqPc' = "range"
    /\ reqLen' = Len(curIngresses)
    /\ reqShared' = TRUE
    /\ reqOld' = <<>>
    /\ reqOut' = <<>>
    /\ UNCHANGED <<forceTLS, respChan, srv, exited, subVars, accVars, pubVars, sigVars,
                   rendered, served, cntVars>>

\* {{range $ing := .Ingresses}}: the next element is read from the array
rangeNext ==
    /\ ~exited
    /\ reqPc = "range"
    /\ Len(reqOut) < reqLen
    /\ LET k == Len(reqOut) + 1
           e == IF reqShared THEN curIngresses[k] ELSE reqOld[k]
       IN reqOut' = Append(reqOut, row(e))
    /\ UNCHANGED <<forceTLS, respChan, srv, exited, subVars, accVars, pubVars, sigVars,
                   reqPc, reqLen, reqShared, reqOld, rendered, served, cntVars>>

\* the template without its {{else}} branch: an empty list gives an empty <ul>
rangeEndNoElse ==
    /\ ~exited
    /\ reqPc = "range"
    /\ Len(reqOut) = reqLen
    /\ rendered' = [items |-> reqOut, empty |-> FALSE]
    /\ served' = served + 1
    /\ reqPc' = "idle"
    /\ reqLen' = 0
    /\ reqShared' = FALSE
    /\ reqOld' = <<>>
    /\ reqOut' = <<>>
    /\ UNCHANGED <<forceTLS, respChan, srv, exited, subVars, accVars, pubVars, sigVars,
                   cntVars>>

\* {{else}} for an empty slice, {{end}}: the page is complete
rangeEnd ==
    /\ ~exited
    /\ reqPc = "range"
    /\ Len(reqOut) = reqLen
    /\ rendered' = [items |-> reqOut, empty |-> (reqLen = 0)]
    /\ served' = served + 1
    /\ reqPc' = "idle"
    /\ reqLen' = 0
    /\ reqShared' = FALSE
    /\ reqOld' = <<>>
    /\ reqOut' = <<>>
    /\ UNCHANGED <<forceTLS, respChan, srv, exited, subVars, accVars, pubVars, sigVars,
                   cntVars>>

-----------------------------------------------------------------------------

\* the watch subscriptions and the publisher
WatchNext ==
    \/ \E s \in watchableNamespaces : AddFunc(s, MaxEvents)
    \/ \E s \in watchableNamespaces : DeleteFunc(s, MaxEvents)
    \/ \E s \in watchableNamespaces : UpdateFunc(s, MaxEvents)
    \/ \E s \in watchableNamespaces : Lock(s)
    \/ \E s \in watchableNamespaces : Upsert(s)
    \/ \E s \in watchableNamespaces : Delete(s)
    \/ \E s \in watchableNamespaces : Send(s)
    \/ receive
    \/ sortSwap
    \/ sortReturn

WatchSpec == Init /\ [][WatchNext]_vars

\* the watch subscriptions, the publisher and HTTP requests
HTTPNext ==
    \/ \E s \in watchableNamespaces : AddFunc(s, MaxEventsHTTP)
    \/ \E s \in watchableNamespaces : DeleteFunc(s, MaxEventsHTTP)
    \/ \E s \in watchableNamespaces : UpdateFunc(s, MaxEventsHTTP)
    \/ \E s \in watchableNamespaces : Lock(s)
    \/ \E s \in watchableNamespaces : Upsert(s)
    \/ \E s \in watchableNamespaces : Delete(s)
    \/ \E s \in watchableNamespaces : Send(s)
    \/ receive
    \/ sortSwap
    \/ sortReturn
    \/ handler(MaxRequests)
    \/ rangeNext
    \/ rangeEnd

HTTPSpec == Init /\ [][HTTPNext]_vars

\* the whole program, signals and exit included
Next ==
    \/ HTTPNext
    \/ shutdown
    \/ notify
    \/ handleSignals
    \/ mainReturn

Spec == Init /\ [][Next]_vars

-----------------------------------------------------------------------------
(* Concurrent writers against one accumulator: the accumulator holds up to  *)
(* MaxLen records added earlier and published, and each subscription is    *)
(* idle or about to call upsert or delete with a record it has built.      *)

\* objects of namespace default added earlier, under four names
StartObjects ==
    { [Namespace |-> s_default, Name |-> n, TLS |-> << <<h_app>> >>, Rules |-> <<h_app>>] :
          n \in {s_web, s_api, s_db, s_docs} }

\* lists of at most MaxLen records with different names
StartLists(force) ==
    LET pool == recordsOf(StartObjects, force)
    IN UNION { {l \in [1..n -> pool] : \A i, j \in 1..n : i # j => l[i].Name # l[j].Name} :
                   n \in 0..MaxLen }

AccumInit ==
    /\ forceTLS \in BOOLEAN
    /\ active \in StartLists(forceTLS)
    /\ mu = Unlocked
    /\ respChan = <<>>
    /\ note \in [watchableNamespaces ->
                    {NoNote} \cup [kind : {"add", "delete"},
                                   obj : UNION {Objects(s) : s \in watchableNamespaces}]]
    /\ \A s \in watchableNamespaces :
          note[s] # NoNote =>
              note[s].obj.Namespace = s /\ ~buildIngress(note[s].obj, forceTLS).err
    /\ pc = [s \in watchableNamespaces |->
                 CASE note[s].kind = "none" -> "idle"
                   [] note[s].kind = "add" -> "upsert"
                   [] note[s].kind = "delete" -> "delete"]
    /\ ing = [s \in watchableNamespaces |->
                  IF note[s] = NoNote THEN NoIngress
                  ELSE buildIngress(note[s].obj, forceTLS).ing]
    /\ current = [s \in watchableNamespaces |-> <<>>]
    /\ curIngresses = sortIngresses(active)
    /\ pubPc = "select"
    /\ signalChan = 0
    /\ sigPc = "range"
    /\ doneChan = 0
    /\ srv = "serving"
    /\ exited = FALSE
    /\ reqPc = "idle"
    /\ reqLen = 0
    /\ reqShared = FALSE
    /\ reqOld = <<>>
    /\ reqOut = <<>>
    /\ rendered = NoPage
    /\ served = 0
    /\ delivered = Cardinality({s \in watchableNamespaces : pc[s] # "idle"})
    /\ accepted = delivered
    /\ ops = 0
    /\ sent = 0
    /\ names = nameSet(active)

AccumNext ==
    \/ \E s \in watchableNamespaces : Lock(s)
    \/ \E s \in watchableNamespaces : Upsert(s)
    \/ \E s \in watchableNamespaces : Delete(s)
    \/ \E s \in watchableNamespaces : Send(s)

AccumSpec == AccumInit /\ [][AccumNext]_vars

-----------------------------------------------------------------------------
(* A slow publisher: subscription default has handled an add and a delete   *)
(* of one object in turn, ChanCap - QueueRoom notifications in all, and the *)
(* publisher has not yet received any of the snapshots.                     *)

\* free places in respChan at the start
QueueRoom == 1
\* notifications delivered after the start, over all subscriptions
MaxEventsQueue == 3

\* one object per namespace, with one plain host: web in default, api elsewhere
QueueObjects(ns) ==
    { [Namespace |-> ns, Name |-> (IF ns = s_default THEN s_web ELSE s_api),
       TLS |-> <<>>, Rules |-> <<h_b>>] }

\* the state in which respChan has room free places
QueueStart(room) ==
    /\ forceTLS \in BOOLEAN
    /\ respChan =
           LET o == CHOOSE x \in QueueObjects(s_default) : TRUE
           IN [i \in 1..(ChanCap - room) |->
                  IF i % 2 = 1 THEN <<buildIngress(o, forceTLS).ing>> ELSE <<>>]
    /\ active = respChan[Len(respChan)]
    /\ names = nameSet(active)
    /\ mu = Unlocked
    /\ pc = [s \in watchableNamespaces |-> "idle"]
    /\ ing = [s \in watchableNamespaces |-> NoIngress]
    /\ current = [s \in watchableNamespaces |-> <<>>]
    /\ note = [s \in watchableNamespaces |-> NoNote]
    /\ curIngresses = <<>>
    /\ pubPc = "select"
    /\ signalChan = 0
    /\ sigPc = "range"
    /\ doneChan = 0
    /\ srv = "serving"
    /\ exited = FALSE
    /\ reqPc = "idle"
    /\ reqLen = 0
    /\ reqShared = FALSE
    /\ reqOld = <<>>
    /\ reqOut = <<>>
    /\ rendered = NoPage
    /\ served = 0
    /\ delivered = Len(respChan)
    /\ accepted = delivered
    /\ ops = delivered
    /\ sent = delivered

QueueInit == QueueStart(QueueRoom)

\* AddFunc and DeleteFunc on the objects of QueueObjects
queueAdd(s) ==
    \E obj \in QueueObjects(s) :
        handlerStart(s, "add", TRUE, obj, "upsert", ChanCap - QueueRoom + MaxEventsQueue)
queueDelete(s) ==
    \E obj \in QueueObjects(s) :
        handlerStart(s, "delete", TRUE, obj, "delete", ChanCap - QueueRoom + MaxEventsQueue)

QueueNext ==
    \/ \E s \in watchableNamespaces : queueAdd(s)
    \/ \E s \in watchableNamespaces : queueDelete(s)
    \/ \E s \in watchableNamespaces : Lock(s)
    \/ \E s \in watchableNamespaces : Upsert(s)
    \/ \E s \in watchableNamespaces : Delete(s)
    \/ \E s \in watchableNamespaces : Send(s)
    \/ receive
    \/ sortSwap
    \/ sortReturn

QueueSpec == QueueInit /\ [][QueueNext]_vars
\* progress: the publisher is behind by a full queue and MaxEventsLive
\* notifications are still to be delivered
MaxEventsLive == 2

LiveInit == QueueStart(0)

\* one object per namespace, of the same name and with one plain host
LiveObjects(ns) ==
    { [Namespace |-> ns, Name |-> s_web, TLS |-> <<>>, Rules |-> <<h_b>>] }

liveAdd(s) ==
    \E obj \in LiveObjects(s) :
        handlerStart(s, "add", TRUE, obj, "upsert", ChanCap + MaxEventsLive)
liveDelete(s) ==
    \E obj \in LiveObjects(s) :
        handlerStart(s, "delete", TRUE, obj, "delete", ChanCap + MaxEventsLive)

\* the steps of the publisher goroutine (no list has two records here, so
\* that the sort never swaps)
publisher == receive \/ sortReturn

LiveNext ==
    \/ \E s \in watchableNamespaces : liveAdd(s)
    \/ \E s \in watchableNamespaces : liveDelete(s)
    \/ \E s \in watchableNamespaces : Lock(s)
    \/ \E s \in watchableNamespaces : Upsert(s)
    \/ \E s \in watchableNamespaces : Delete(s)
    \/ \E s \in watchableNamespaces : Send(s)
    \/ publisher

\* the scheduling of the Go runtime: the publisher goroutine takes its next
\* step in the end, and when the channel has room a waiting send completes
LiveSpec ==
    /\ LiveInit
    /\ [][LiveNext]_vars
    /\ WF_vars(publisher)
    /\ WF_vars(\E s \in watchableNamespaces : Send(s))

\* HTTP requests while the publisher is behind by a full queue
MaxEventsBusy == 2
MaxRequestsBusy == 1

BusyInit == QueueStart(0)

busyAdd(s) ==
    \E obj \in QueueObjects(s) :
        handlerStart(s, "add", TRUE, obj, "upsert", ChanCap + MaxEventsBusy)
busyDelete(s) ==
    \E obj \in QueueObjects(s) :
        handlerStart(s, "delete", TRUE, obj, "delete", ChanCap + MaxEventsBusy)

BusyNext ==
    \/ \E s \in watchableNamespaces : busyAdd(s)
    \/ \E s \in watchableNamespaces : busyDelete(s)
    \/ \E s \in watchableNamespaces : Lock(s)
    \/ \E s \in watchableNamespaces : Upsert(s)
    \/ \E s \in watchableNamespaces : Delete(s)
    \/ \E s \in watchableNamespaces : Send(s)
    \/ receive
    \/ sortSwap
    \/ sortReturn
    \/ handler(MaxRequestsBusy)
    \/ rangeNext
    \/ rangeEnd

BusySpec == BusyInit /\ [][BusyNext]_vars

-----------------------------------------------------------------------------
(* The subscriptions, the publisher, the signals and the end of the process *)

\* notifications delivered in the behaviours with signals
MaxEventsSignal == 3

signalAdd(s) ==
    \E obj \in QueueObjects(s) :
        handlerStart(s, "add", TRUE, obj, "upsert", MaxEventsSignal)
signalDelete(s) ==
    \E obj \in QueueObjects(s) :
        handlerStart(s, "delete", TRUE, obj, "delete", MaxEventsSignal)

SignalNext ==
    \/ \E s \in watchableNamespaces : signalAdd(s)
    \/ \E s \in watchableNamespaces : signalDelete(s)
    \/ \E s \in watchableNamespaces : Lock(s)
    \/ \E s \in watchableNamespaces : Upsert(s)
    \/ \E s \in watchableNamespaces : Delete(s)
    \/ \E s \in watchableNamespaces : Send(s)
    \/ receive
    \/ sortSwap
    \/ sortReturn
    \/ shutdown
    \/ notify
    \/ handleSignals
    \/ mainReturn

SignalSpec == Init /\ [][SignalNext]_vars

-----------------------------------------------------------------------------
(* The normaliser on its own: subscription default has been handed one      *)
(* notification for an object with up to MaxRules rules.                    *)

\* rules of an object
MaxRules == 2

\* hosts of rules: empty, loopback with a port, two plain hosts, loopback
\* without a port, a path without a host, a port that is no number, a space,
\* a loopback host behind a user name, a path with a space
NormHosts ==
    {h_empty, h_lo, h_app, h_b, h_localhost, h_path, h_badport, h_space, h_user, h_esc}

NormTLS == { <<>>, << <<h_app>> >>, << <<h_b>>, <<h_path, h_lo>> >> }

NormObjects ==
    { [Namespace |-> s_default, Name |-> s_web, TLS |-> tls, Rules |-> r] :
          tls \in NormTLS,
          r \in UNION {[1..n -> NormHosts] : n \in 0..MaxRules} }

NormInit ==
    /\ forceTLS \in BOOLEAN
    /\ active = <<>>
    /\ mu = Unlocked
    /\ respChan = <<>>
    /\ note \in [watchableNamespaces ->
                    {NoNote} \cup [kind : {"add", "delete"}, obj : NormObjects]]
    /\ \A s \in watchableNamespaces : note[s] # NoNote <=> s = s_default
    /\ pc = [s \in watchableNamespaces |-> IF s = s_default THEN "build" ELSE "idle"]
    /\ ing = [s \in watchableNamespaces |-> NoIngress]
    /\ current = [s \in watchableNamespaces |-> <<>>]
    /\ curIngresses = <<>>
    /\ pubPc = "select"
    /\ signalChan = 0
    /\ sigPc = "range"
    /\ doneChan = 0
    /\ srv = "serving"
    /\ exited = FALSE
    /\ reqPc = "idle"
    /\ reqLen = 0
    /\ reqShared = FALSE
    /\ reqOld = <<>>
    /\ reqOut = <<>>
    /\ rendered = NoPage
    /\ served = 0
    /\ delivered = 1
    /\ accepted = 0
    /\ ops = 0
    /\ sent = 0
    /\ names = {}

NormNext ==
    \/ \E s \in watchableNamespaces : build(s)
    \/ \E s \in watchableNamespaces : Lock(s)
    \/ \E s \in watchableNamespaces : Upsert(s)
    \/ \E s \in watchableNamespaces : Delete(s)
    \/ \E s \in watchableNamespaces : Send(s)

NormSpec == NormInit /\ [][NormNext]_vars

-----------------------------------------------------------------------------
(* One watched namespace, -force-tls on: Ingress web of namespace default   *)
(* with the one rule app.example.com is added and then deleted, and         *)
(* requests are served at any time. Only subscription default is handed     *)
(* notifications.                                                           *)

\* HTTP requests served
MaxRequestsE2E == 2

E2EObject == [Namespace |-> s_default, Name |-> s_web, TLS |-> <<>>, Rules |-> <<h_app>>]

E2EInit == Init /\ forceTLS

\* AddFunc for the object, as the first notification
e2eAdd == handlerStart(s_default, "add", TRUE, E2EObject, "upsert", 1)

\* DeleteFunc for the object, as the second notification
e2eDelete ==
    /\ delivered = 1
    /\ handlerStart(s_default, "delete", TRUE, E2EObject, "delete", 2)

\* (no list has two records here, so that the sort never swaps)
E2ENext ==
    \/ e2eAdd
    \/ e2eDelete
    \/ Lock(s_default)
    \/ Upsert(s_default)
    \/ Delete(s_default)
    \/ Send(s_default)
    \/ receive
    \/ sortReturn
    \/ handler(MaxRequestsE2E)
    \/ rangeNext
    \/ rangeEnd

E2ESpec == E2EInit /\ [][E2ENext]_vars

-----------------------------------------------------------------------------
(* A last delete: adds and updates are delivered and handled, and then, as  *)
(* the last notification, the delete of Ingress web, with the object in any *)
(* of its states or as a tombstone.                                         *)

\* notifications delivered, the delete included
MaxEventsDel == 3

\* DeleteFunc for web, once the earlier notifications are handled to the end
lastDelete(s) ==
    /\ delivered = MaxEventsDel - 1
    /\ \A x \in watchableNamespaces : pc[x] = "idle"
    /\ \E obj \in {o \in Objects(s) : o.Name = s_web} : \E ok \in BOOLEAN :
           handlerStart(s, "delete", ok, obj, "delete", MaxEventsDel)

DelNext ==
    \/ \E s \in watchableNamespaces : AddFunc(s, MaxEventsDel - 1)
    \/ \E s \in watchableNamespaces : UpdateFunc(s, MaxEventsDel - 1)
    \/ \E s \in watchableNamespaces : lastDelete(s)
    \/ \E s \in watchableNamespaces : Lock(s)
    \/ \E s \in watchableNamespaces : Upsert(s)
    \/ \E s \in watchableNamespaces : Delete(s)
    \/ \E s \in watchableNamespaces : Send(s)

DelSpec == Init /\ [][DelNext]_vars

-----------------------------------------------------------------------------
(* Properties of the accumulator *)

\* a subscription's call of upsert / delete returns in this step
upsertReturns(s) == pc[s] = "inUpsert" /\ pc'[s] = "send"
deleteReturns(s) == pc[s] = "inDelete" /\ pc'[s] = "send"

\* C1: upsert is first-write-wins on name. When a stored record already has
\* the name of the record upserted, whatever its namespace and address, the
\* stored list stays exactly as it was and is returned in full; only when no
\* stored record has the name is the record appended.
C1_UpsertFirstWriteWins ==
    [][\A s \in watchableNamespaces :
          upsertReturns(s) =>
              IF \E k \in 1..Len(active) : active[k].Name = ing[s].Name
              THEN active' = active /\ current'[s] = active
              ELSE active' = Append(active, ing[s]) /\ current'[s] = active']_vars

\* an upsert has returned the list unchanged although the record it carried
\* is not in it: a stored record of that name, with another namespace or
\* address, was kept
C1_Witness ==
    \E s \in watchableNamespaces :
        /\ pc[s] = "send"
        /\ note[s].kind \in {"add", "update"}
        /\ ing[s].Name \in nameSet(current[s])
        /\ \A k \in 1..Len(current[s]) : current[s][k] # ing[s]
        /\ \E k \in 1..Len(current[s]) :
              /\ current[s][k].Name = ing[s].Name
              /\ current[s][k].Namespace # ing[s].Namespace
              /\ current[s][k].FQDN # ing[s].FQDN

\* C2: delete is the filter by name. The stored list after delete is the
\* previous list without the records named like the one deleted, whatever
\* their namespace, in the same relative order, and it is what delete returns.
C2_DeleteFiltersByName ==
    [][\A s \in watchableNamespaces :
          deleteReturns(s) =>
              /\ active' = SelectSeq(active, LAMBDA r : r.Name # ing[s].Name)
              /\ current'[s] = active']_vars

\* the first delete has returned two records, and the list of three published
\* before holds a record of the deleted name in another namespace
C2_Witness ==
    \E s \in watchableNamespaces :
        /\ pc[s] = "send"
        /\ note[s].kind = "delete"
        /\ ops = 1
        /\ Len(current[s]) = 2
        /\ Len(curIngresses) = 3
        /\ \E k \in 1..Len(curIngresses) :
              /\ curIngresses[k].Name = ing[s].Name
              /\ curIngresses[k].Namespace # ing[s].Namespace

\* C6: the stored names are those of the abstract set of names to which the
\* same operations were applied in lock order (upsert adds the name, delete
\* removes it), and there is one stored record per name.
C6_RefinesNameSet ==
    /\ nameSet(active) = names
    /\ Len(active) = Cardinality(names)

\* both writers have finished, one op each, and a record is left
C6_Witness ==
    /\ \A s \in watchableNamespaces : pc[s] = "idle"
    /\ ops = 2
    /\ sent = 2
    /\ Len(active) >= 2
    /\ respChan[1] # respChan[2]

-----------------------------------------------------------------------------
(* Properties of the watch dispatcher *)

\* a subscription's handler starts on a representable notification, sends
inCall(s) == pc[s] \in {"upsert", "delete", "inUpsert", "inDelete"}
handlerAccepts(s) == pc[s] = "idle" /\ pc'[s] # "idle"
sends(s) == pc[s] = "send" /\ pc'[s] = "idle"

\* every list of records a reader of the accumulator's output can hold
snapshots ==
    {active, curIngresses}
        \cup {respChan[k] : k \in 1..Len(respChan)}
        \cup {current[s] : s \in {x \in watchableNamespaces : pc[x] = "send"}}

\* C3: no deduplication across namespaces. Once a subscription has upserted
\* a record, the accumulator holds an entry of that name for the
\* subscription's namespace, also when another namespace already had one.
C3_OneEntryPerNamespace ==
    [][\A s \in watchableNamespaces :
          upsertReturns(s) =>
              \E k \in 1..Len(active') :
                  /\ active'[k].Name = ing[s].Name
                  /\ active'[k].Namespace = ing[s].Namespace]_vars

\* C4: the accumulator and every snapshot returned, queued or published hold
\* no two records with the same name.
C4_NoDuplicateNames ==
    \A l \in snapshots : \A i, j \in 1..Len(l) : l[i].Name = l[j].Name => i = j

\* both subscriptions have upserted the same name and hold their snapshots
C4_Witness ==
    /\ \A s \in watchableNamespaces :
          pc[s] = "send" /\ note[s].kind \in {"add", "update"}
    /\ Cardinality({ing[s].Name : s \in watchableNamespaces}) = 1
    /\ ops = 2
    /\ Len(active) = 1

\* C5: no record in the accumulator, in a queued or held snapshot or in the
\* published snapshot has an empty address.
C5_NoEmptyAddress ==
    \A l \in snapshots : \A i \in 1..Len(l) : l[i].FQDN # <<>>

\* one notification was dropped, one built a record which is now published
C5_Witness ==
    /\ delivered = 2
    /\ accepted = 1
    /\ sent = 1
    /\ Len(active) = 1
    /\ curIngresses = active
    /\ pubPc = "select"

\* C7: a snapshot is the accumulator's list at the moment it is sent.
C7_SnapshotCurrentWhenSent ==
    [][\A s \in watchableNamespaces : sends(s) => current[s] = active]_vars

\* C10: every representable notification leads to exactly one accumulator
\* operation (upsert for add and update, of the record built from the
\* object's new state; delete for delete) and then to exactly one snapshot
\* sent, whether or not the operation changed the list.
C10_OneOperationOneSnapshot ==
    /\ [](/\ ops + Cardinality({s \in watchableNamespaces : inCall(s)}) = accepted
          /\ sent + Cardinality({s \in watchableNamespaces : pc[s] = "send"}) = ops)
    /\ [][\A s \in watchableNamespaces :
             /\ handlerAccepts(s) =>
                   /\ accepted' = accepted + 1
                   /\ pc'[s] = (IF note'[s].kind \in {"add", "update"}
                                THEN "upsert" ELSE "delete")
                   /\ ing'[s].Namespace = note'[s].obj.Namespace
                   /\ ing'[s].Name = note'[s].obj.Name
                   /\ ing'[s].FQDN = buildFQDN(note'[s].obj, forceTLS)
             /\ upsertReturns(s) => note[s].kind \in {"add", "update"} /\ ops' = ops + 1
             /\ deleteReturns(s) => note[s].kind = "delete" /\ ops' = ops + 1
             /\ sends(s) => /\ respChan' = Append(respChan, current[s])
                            /\ sent' = sent + 1]_vars
    /\ [][respChan' # respChan /\ Len(respChan') >= Len(respChan) =>
             \E s \in watchableNamespaces : sends(s)]_vars

\* two notifications were handled to the end and the second snapshot equals
\* the first: the second operation left the list unchanged and was sent
C10_Witness ==
    /\ \A s \in watchableNamespaces : pc[s] = "idle"
    /\ accepted = 2
    /\ sent = 2
    /\ Len(respChan) = 2
    /\ respChan[1] = respChan[2]
    /\ Len(respChan[1]) = 1

-----------------------------------------------------------------------------
(* Properties of the publisher and the HTTP handler *)

\* the case-insensitive composite key (namespace, name, address) and its order
keyLeq(a, b) ==
    LET a1 == ToLower(a.Namespace)  b1 == ToLower(b.Namespace)
        a2 == ToLower(a.Name)       b2 == ToLower(b.Name)
        a3 == ToLower(a.FQDN)       b3 == ToLower(b.FQDN)
    IN \/ StrLess(a1, b1)
       \/ a1 = b1 /\ StrLess(a2, b2)
       \/ a1 = b1 /\ a2 = b2 /\ ~StrLess(b3, a3)

sortedByKey(l) == \A i, j \in 1..Len(l) : i < j => keyLeq(l[i], l[j])

\* l holds the records of snap, each as often
sameRecords(l, snap) ==
    /\ Len(l) = Len(snap)
    /\ \A r \in {snap[k] : k \in 1..Len(snap)} :
          Cardinality({k \in 1..Len(l) : l[k] = r})
              = Cardinality({k \in 1..Len(snap) : snap[k] = r})

\* C8: what readers see is never modified once visible. The visible list
\* changes only by being replaced, in one step, by the final (sorted) form of
\* the snapshot at the head of the queue.
C8_VisibleNeverModified ==
    [][curIngresses' # curIngresses =>
          /\ respChan # <<>>
          /\ respChan' = Tail(respChan)
          /\ sameRecords(curIngresses', Head(respChan))
          /\ sortedByKey(curIngresses')]_vars

\* C9: every page written lists its records in the order of the
\* case-insensitive composite key (namespace, name, address).
C9_RenderedSorted ==
    served > 0 =>
        sortedByKey([k \in 1..Len(rendered.items) |->
                        [Namespace |-> rendered.items[k].Namespace,
                         Name |-> rendered.items[k].Name,
                         FQDN |-> rendered.items[k].Href]])

-----------------------------------------------------------------------------
(* Dropped notifications, the queue and the order of events *)

\* C11: a notification whose object is not representable is dropped without
\* effect: the accumulator, the queue and the published snapshot are as
\* before, no handler has moved and no snapshot is enqueued.
C11_DroppedNotificationFrame ==
    [][delivered' = delivered + 1 /\ accepted' = accepted =>
          UNCHANGED <<active, mu, names, respChan, curIngresses, pubPc, subVars,
                      ops, sent>>]_vars

\* a notification was dropped and one was handled to the end: a record is
\* stored and its snapshot waits in the queue
C11_Witness ==
    /\ delivered = 2
    /\ accepted = 1
    /\ \A s \in watchableNamespaces : pc[s] = "idle"
    /\ Len(active) = 1
    /\ respChan = <<active>>
    /\ curIngresses = <<>>

\* C12: the queue never holds more than ChanCap snapshots and drops none. A
\* subscription with a snapshot to send keeps it, unchanged, until the queue
\* has room, and stays where it is while the queue is full; the queue
\* changes only by a send appending at its tail or by the publisher taking
\* its head, which becomes the published list: each snapshot is received
\* once, in the order of the sends.
C12_QueueBoundedFIFO ==
    /\ [](Len(respChan) <= ChanCap)
    /\ [][\A s \in watchableNamespaces :
             pc[s] = "send" =>
                 \/ pc'[s] = "send" /\ current'[s] = current[s]
                 \/ /\ Len(respChan) < ChanCap
                    /\ respChan' = Append(respChan, current[s])]_vars
    /\ [][respChan' # respChan =>
             \/ \E s \in watchableNamespaces :
                    sends(s) /\ respChan' = Append(respChan, current[s])
             \/ /\ pubPc = "select"
                /\ respChan # <<>>
                /\ respChan' = Tail(respChan)
                /\ curIngresses' = Head(respChan)]_vars

\* the queue is full and both subscriptions wait to send, each with its own
\* snapshot
C12_Witness ==
    /\ Len(respChan) = ChanCap
    /\ \A s \in watchableNamespaces : pc[s] = "send"
    /\ current[s_default] # current[s_prod]

\* C13 as claimed: the signal closes the HTTP listener and stops nothing
\* else; with the listener closed the publisher loop is still running.
C13_PublisherOutlivesSignal ==
    srv = "closed" => pubPc \in {"select", "sort"} /\ ~exited

\* C13: the signal closes the HTTP listener and ends the publisher loop in
\* the same step; from then on the publisher receives nothing, the published
\* list stays as it is and the queue only grows. The subscriptions are not
\* stopped by the signal: until the process exits, a handler that is in a
\* call or has a snapshot to send can take its next step as before.
C13_SignalEndsPublisherOnly ==
    /\ [](srv = "closed" <=> pubPc = "done")
    /\ [][pubPc = "done" =>
             /\ pubPc' = "done"
             /\ curIngresses' = curIngresses
             /\ \/ respChan' = respChan
                \/ \E s \in watchableNamespaces :
                       sends(s) /\ respChan' = Append(respChan, current[s])]_vars
    /\ [](srv = "closed" /\ ~exited =>
             \A s \in watchableNamespaces :
                 /\ pc[s] \in {"upsert", "delete"} /\ mu = Unlocked => ENABLED Lock(s)
                 /\ pc[s] = "inUpsert" => ENABLED Upsert(s)
                 /\ pc[s] = "inDelete" => ENABLED Delete(s)
                 /\ pc[s] = "send" /\ Len(respChan) < ChanCap => ENABLED Send(s))

\* the listener is closed and the publisher has returned; two snapshots wait
\* in the queue and a subscription is about to send a third
C13_Witness ==
    /\ srv = "closed"
    /\ pubPc = "done"
    /\ ~exited
    /\ Len(respChan) = 2
    /\ \E s \in watchableNamespaces : pc[s] = "send"

\* C15: within one subscription events take effect in the order delivered.
\* A handler takes a notification only when the subscription's previous
\* handler has returned, that is after its operation and its send; while a
\* notification is handled it is not replaced by another; the operation is
\* the one for that notification; and the handler returns only by sending
\* the snapshot of that operation. Across subscriptions nothing orders the
\* sends: a later operation's snapshot can be queued first.
C15_InOrderWithinSubscription ==
    [][\A s \in watchableNamespaces :
          /\ pc'[s] \in {"upsert", "delete"} /\ pc'[s] # pc[s] =>
                pc[s] = "idle" /\ current[s] = <<>> /\ note[s] = NoNote
          /\ pc[s] # "idle" => note'[s] \in {note[s], NoNote}
          /\ upsertReturns(s) \/ deleteReturns(s) =>
                /\ ing[s].Name = note[s].obj.Name
                /\ note'[s] = note[s]
          /\ pc[s] = "send" /\ pc'[s] # "send" =>
                /\ pc'[s] = "idle"
                /\ note'[s] = NoNote
                /\ respChan' = Append(respChan, current[s])]_vars

\* both subscriptions have added a record and the snapshot of the second
\* operation, with two records, is in the queue ahead of that of the first
C15_Witness ==
    /\ \A s \in watchableNamespaces : pc[s] = "idle"
    /\ Len(respChan) = 2
    /\ Len(respChan[1]) = 2
    /\ Len(respChan[2]) = 1
    /\ Len(active) = 2

\* C18: convergence. When every notification delivered has been handled to
\* the end and the queue is drained, the published list holds exactly the
\* records of the accumulator.
C18_ConvergesWhenDrained ==
    (/\ \A s \in watchableNamespaces : pc[s] = "idle"
     /\ respChan = <<>>
     /\ pubPc = "select")
        => sameRecords(curIngresses, active)

\* C19: progress under backpressure. With no signal delivered and the
\* publisher loop scheduled fairly, a subscription that has a snapshot to
\* send, blocked on a full queue or not, sends it in the end; the publisher
\* comes back to its select after each sort and, when the queue is not
\* empty, receives; and the k-th snapshot sent is received in the end, for
\* every k.
C19_BlockedProducersProgress ==
    /\ \A s \in watchableNamespaces : (pc[s] = "send") ~> (pc[s] = "idle")
    /\ (pubPc = "sort") ~> (pubPc = "select")
    /\ (pubPc = "select" /\ respChan # <<>>) ~> (pubPc = "sort")
    /\ \A k \in 1..(ChanCap + MaxEventsLive) :
           (sent >= k) ~> (sent - Len(respChan) >= k)

\* more snapshots were sent than the queue holds, so that one was sent after
\* the publisher made room; the queue is full again and a subscription waits
C19_Witness ==
    /\ sent > ChanCap
    /\ Len(respChan) = ChanCap
    /\ \E s \in watchableNamespaces : pc[s] = "send"

-----------------------------------------------------------------------------
(* HTTP requests against a busy dispatcher *)

\* a step of the request handler
requestStep == reqPc' # reqPc \/ reqOut' # reqOut

\* C14: a request never waits for the watch side. While the listener
\* serves, a request can start in every state, whether the accumulator's
\* lock is held, the queue is full, subscriptions are blocked on it or the
\* publisher is in its sort; once started it can always take its next step;
\* it reads the published list, and its steps leave the lock, the queue, the
\* handlers of the subscriptions and the publisher as they are.
C14_RequestsNeverBlock ==
    /\ [](srv = "serving" /\ ~exited /\ reqPc = "idle" /\ served < MaxRequestsBusy =>
             ENABLED handler(MaxRequestsBusy))
    /\ [](reqPc = "range" /\ ~exited => ENABLED (rangeNext \/ rangeEnd))
    /\ [][requestStep =>
             /\ reqPc = "idle" => reqLen' = Len(curIngresses)
             /\ UNCHANGED <<mu, active, respChan, subVars, pubVars, cntVars>>]_vars

\* a request is being served while the queue is full, one subscription is
\* blocked on it and the other holds the accumulator's lock
C14_Witness ==
    /\ reqPc = "range"
    /\ Len(respChan) = ChanCap
    /\ \E s \in watchableNamespaces : pc[s] = "send"
    /\ mu # Unlocked

-----------------------------------------------------------------------------
(* Properties of the normaliser *)

\* the hosts named by the TLS entries of an object
hostsIn(tls) == UNION { {tls[i][j] : j \in 1..Len(tls[i])} : i \in 1..Len(tls) }

\* the scheme for a rule's host
schemeFor(obj, h, force) == IF force \/ h \in hostsIn(obj.TLS) THEN p_https ELSE p_http

\* the host of the first rule, in the order declared, that satisfies Ok; the
\* address made of it by Addr; "" when no rule satisfies Ok
firstAddress(obj, force, Ok(_), Addr(_)) ==
    LET ok == {i \in 1..Len(obj.Rules) : Ok(obj.Rules[i])}
    IN IF ok = {} THEN <<>>
       ELSE LET i == CHOOSE i \in ok : \A j \in ok : i <= j
            IN schemeFor(obj, obj.Rules[i], force) \o Addr(obj.Rules[i])

\* the handler of s leaves buildIngress in this step: with no address the
\* notification is dropped, else the record carries the address
builds(s, address) ==
    pc[s] = "build" /\ pc'[s] # "build" =>
        IF address = <<>>
        THEN pc'[s] = "idle" /\ accepted' = accepted /\ ing'[s] = NoIngress
        ELSE /\ pc'[s] \in {"upsert", "delete"}
             /\ ing'[s] = [Namespace |-> note[s].obj.Namespace,
                           Name |-> note[s].obj.Name,
                           FQDN |-> address]

\* a host as C16 reads it: not empty and not starting with "localhost:"
notLoopback(h) == h # <<>> /\ ~HasPrefix(h, p_localhost)

\* C16 as claimed: the address is scheme + host for the first rule whose host
\* is not empty and does not start with "localhost:", the scheme being https
\* when TLS is forced or the host is a TLS host and http otherwise; without
\* such a rule the object is not representable.
C16_FirstNonLoopbackHost ==
    [][\A s \in watchableNamespaces :
          builds(s, firstAddress(note[s].obj, forceTLS, notLoopback, LAMBDA h : h))]_vars

\* the host component of scheme + h as a URL: what stands before the first
\* "/" and, there, after the last "@"
hostComponent(h) ==
    LET i == Index(h, chSlash)
        authority == IF i = 0 THEN h ELSE SubSeq(h, 1, i - 1)
    IN SubSeq(authority, LastIndex(authority, chAt) + 1, Len(authority))

\* a host the normaliser uses: scheme + h is a URL (no space before the
\* path, digits only after the last ":" of the host component) whose host
\* component is not empty and does not start with "localhost:"
usableHost(h) ==
    LET hc == hostComponent(h)
        c == LastIndex(hc, chColon)
    IN /\ notLoopback(hc)
       /\ \A k \in 1..Len(h) : h[k] = 32 => Index(h, chSlash) \in 1..(k - 1)
       /\ c # 0 => \A k \in (c + 1)..Len(hc) : isDigit(hc[k])

\* h with every space written as %20
RECURSIVE spacesEscaped(_)
spacesEscaped(h) ==
    IF h = <<>> THEN <<>>
    ELSE IF h[1] = 32 THEN <<37, 50, 48>> \o spacesEscaped(Tail(h))
    ELSE <<h[1]>> \o spacesEscaped(Tail(h))

\* C16: the address is made of the first rule, in the order declared, whose
\* host gives a URL with a host component that is not empty and does not
\* start with "localhost:"; rules whose host is empty, is only a path, does
\* not parse (a space, a port that is no number) or hides the loopback host
\* behind a user name are passed over. The address is the scheme, https when
\* TLS is forced or the rule's host is a TLS host and http otherwise,
\* followed by the host as the URL writes it, which is the host itself
\* unless its path holds a space. Without such a rule the object is not
\* representable.
C16_FirstUsableHost ==
    [][\A s \in watchableNamespaces :
          builds(s, firstAddress(note[s].obj, forceTLS, usableHost, spacesEscaped))]_vars

\* a record was built from the second rule of an object whose first rule is
\* neither empty nor starts with "localhost:", and the second rule's host is
\* a TLS host, with TLS not forced
C16_Witness ==
    /\ ~forceTLS
    /\ pc[s_default] \in {"upsert", "delete"}
    /\ Len(note[s_default].obj.Rules) = 2
    /\ notLoopback(note[s_default].obj.Rules[1])
    /\ note[s_default].obj.Rules[2] \in hostsIn(note[s_default].obj.TLS)
    /\ ing[s_default].FQDN = p_https \o note[s_default].obj.Rules[2]

-----------------------------------------------------------------------------
(* End to end *)

\* k notifications were delivered, handled to the end and published
publishedAfter(k) ==
    /\ delivered = k
    /\ \A s \in watchableNamespaces : pc[s] = "idle"
    /\ respChan = <<>>
    /\ pubPc = "select"

\* the array the request in progress reads
reqArray == IF reqShared THEN curIngresses ELSE reqOld

\* the record and the pages of the scenario
webRecord == [Namespace |-> s_default, Name |-> s_web, FQDN |-> p_https \o h_app]
webPage ==
    [items |-> << [Namespace |-> s_default, Href |-> p_https \o h_app, Name |-> s_web] >>,
     empty |-> FALSE]
placeholderPage == [items |-> <<>>, empty |-> TRUE]

\* C17: with one watched namespace and TLS forced, once the add of
\* {default, web, app.example.com} is handled and published the published
\* list is the one record default / web / https://app.example.com, and once
\* the delete of web is handled and published it is empty. A request reads
\* the list published when it starts, that list stays as it is while the
\* request runs, and the page written is the one row default / web ->
\* https://app.example.com for the one record and the placeholder for the
\* empty list.
C17_AddThenDeleteRendered ==
    /\ [](/\ publishedAfter(1) => curIngresses = <<webRecord>>
          /\ publishedAfter(2) => curIngresses = <<>>
          /\ reqPc = "range" => reqArray \in {<<>>, <<webRecord>>}
                                  /\ Len(reqArray) = reqLen)
    /\ [][/\ reqPc = "idle" /\ reqPc' = "range" => reqArray' = curIngresses
          /\ reqPc = "range" /\ reqPc' = "range" => reqArray' = reqArray
          /\ reqPc = "range" /\ reqPc' = "idle" =>
                rendered' = IF reqArray = <<>> THEN placeholderPage ELSE webPage]_vars

\* the first request has written the one row; the delete is handled and
\* published and a second request has started on the empty list
C17_Witness ==
    /\ publishedAfter(2)
    /\ served = 1
    /\ rendered = webPage
    /\ reqPc = "range"
    /\ reqLen = 0

-----------------------------------------------------------------------------
(* Deletion *)

\* C20: a deletion is never lost. When the last notification delivered for
\* web is a delete and it has been handled to the end, the accumulator holds
\* no record named web, whatever state of the object the delete carried.
C20_DeleteNeverLost ==
    (/\ delivered = MaxEventsDel
     /\ \A s \in watchableNamespaces : pc[s] = "idle")
        => s_web \notin nameSet(active)

====
